---- MODULE Spec2Model ----
(***************************************************************************)
(* WorldForgeAI browser client: the world model held by AppLayout, the     *)
(* merge handler handleDataGenerated, the capability gate                  *)
(* (isLLMInitialized / initializedProviderKey) and the producer views      *)
(* (tabs) that submit generation requests and hand results to the store.   *)
(*                                                                         *)
(* Six specifications are given over the same variables:                   *)
(*   SpecStore    the store driven directly through its two entry points   *)
(*                handleDataGenerated and handleLLMInitialized;            *)
(*   Spec         the whole application: tabs, submit handlers, requests   *)
(*                in flight and their completions;                         *)
(*   SpecCallers  handleDataGenerated driven by tabs whose calls are in    *)
(*                flight together, with the log of calls kept;             *)
(*   SpecRace     the application with the log of calls kept, started      *)
(*                after the world seed and the culture were generated;     *)
(*   SpecSession  the application with its dropdown lists, the stored auth *)
(*                token and logout / login, started after the first        *)
(*                sections were generated;                                 *)
(*   FairSpecSession  SpecSession with every call eventually answered.     *)
(* Spec and SpecRace leave the dropdown lists (entityOptions) and the      *)
(* token alone; SpecSession follows them.                                  *)
(***************************************************************************)
EXTENDS Integers, Sequences, FiniteSets, TLC

VARIABLES
  worldData,               \* AppLayout state: the nine sections
  isLLMInitialized,        \* AppLayout state: capability gate flag
  initializedProviderKey,  \* AppLayout state: provider key
  activeComponent,         \* AppLayout state: which tab is rendered
  isLoading,               \* local state of the mounted view
  errorMessage,            \* local state of the mounted view
  entitySelection,         \* local state of the mounted view (associated entity dropdown)
  entityOptions,           \* local state of the mounted view (names offered by its dropdowns)
  entity1Selection,        \* local state of the mounted view (SimulateTab)
  entity2Selection,        \* local state of the mounted view (SimulateTab)
  inFlight,                \* generation / init calls awaiting their result, in submission order
  nRequests,               \* number of calls issued so far
  authToken,               \* localStorage: whether an auth token is stored
  mergeLog                 \* history: the calls made so far (empty throughout Spec)

vars == <<worldData, isLLMInitialized, initializedProviderKey, activeComponent,
          isLoading, errorMessage, entitySelection, entityOptions,
          entity1Selection, entity2Selection, inFlight, nRequests, authToken, mergeLog>>

-----------------------------------------------------------------------------
(* Bounds *)

MaxStoreCalls == 4

MaxRequests == 7

MaxPick == 2

MaxInFlight == 2

MaxRaceCalls == 2

MaxSessionCalls == 2

-----------------------------------------------------------------------------
(* JavaScript values.  Every value has the same shape so that any two can  *)
(* be compared: kind is "object", "string" or "undefined"; an object's     *)
(* own properties are in map, a string's text is in str.                   *)

EmptyMap == << >>

Undefined == [kind |-> "undefined", str |-> "", map |-> EmptyMap]

Str(s) == [kind |-> "string", str |-> s, map |-> EmptyMap]

Obj(m) == [kind |-> "object", str |-> "", map |-> m]

Digits == <<"0", "1", "2", "3", "4", "5", "6", "7", "8", "9">>

\* the property name JavaScript gives to index i of a string
IdxKey(i) == IF i < 10 THEN Digits[i + 1] ELSE Digits[(i \div 10) + 1] \o Digits[(i % 10) + 1]

\* the characters of the string literals the program handles
CharsOf(s) ==
  CASE s = "culture" -> <<"c", "u", "l", "t", "u", "r", "e">>
    [] s = "factions" -> <<"f", "a", "c", "t", "i", "o", "n", "s">>
    [] s = "characters" -> <<"c", "h", "a", "r", "a", "c", "t", "e", "r", "s">>
    [] s = "locations" -> <<"l", "o", "c", "a", "t", "i", "o", "n", "s">>
    [] s = "artifacts" -> <<"a", "r", "t", "i", "f", "a", "c", "t", "s">>
    [] s = "events" -> <<"e", "v", "e", "n", "t", "s">>
    [] s = "interaction_result" -> <<"i", "n", "t", "e", "r", "a", "c", "t", "i", "o", "n", "_", "r", "e", "s", "u", "l", "t">>
    [] s = "chat_message" -> <<"c", "h", "a", "t", "_", "m", "e", "s", "s", "a", "g", "e">>
    [] OTHER -> << >>

\* JavaScript truthiness: `x && ...`, `x || {}`
Truthy(v) ==
  CASE v.kind = "object" -> TRUE
    [] v.kind = "string" -> v.str # ""
    [] OTHER -> FALSE

\* the own enumerable properties copied by object spread `{...v}`
SpreadProps(v) ==
  CASE v.kind = "object" -> v.map
    [] v.kind = "string" /\ CharsOf(v.str) # << >> ->
         [k \in {IdxKey(i - 1) : i \in 1..Len(CharsOf(v.str))} |->
            Str(CharsOf(v.str)[CHOOSE i \in 1..Len(CharsOf(v.str)) : IdxKey(i - 1) = k])]
    [] OTHER -> EmptyMap

\* Object.keys(v)
ObjectKeys(v) == DOMAIN SpreadProps(v)

\* a merge that combines the fields of an existing record with the new one
SpreadMergeFieldwise(a, b) ==
  LET pa == SpreadProps(a)
      pb == SpreadProps(b)
      dom == (DOMAIN pa) \cup (DOMAIN pb)
      Both(k) ==
        LET fa == SpreadProps(pa[k])
            fb == SpreadProps(pb[k])
        IN  Obj([f \in (DOMAIN fa) \cup (DOMAIN fb) |-> IF f \in DOMAIN fb THEN fb[f] ELSE fa[f]])
  IN  IF dom = {} THEN Obj(EmptyMap)
      ELSE Obj([k \in dom |->
                 IF k \in DOMAIN pb
                 THEN (IF k \in DOMAIN pa /\ pa[k].kind = "object" /\ pb[k].kind = "object"
                       THEN Both(k) ELSE pb[k])
                 ELSE pa[k]])

\* `{ ...a, ...b }`
SpreadMerge(a, b) ==
  LET pa == SpreadProps(a)
      pb == SpreadProps(b)
      dom == (DOMAIN pa) \cup (DOMAIN pb)
  IN  IF dom = {} THEN Obj(EmptyMap)
      ELSE Obj([k \in dom |-> IF k \in DOMAIN pb THEN pb[k] ELSE pa[k]])

\* `x || {}`
OrEmptyObject(x) == IF Truthy(x) THEN x ELSE Obj(EmptyMap)

-----------------------------------------------------------------------------
(* AppLayout: the world model and its merge handler *)

SingletonSections == {"physical_world", "culture"}

KeyedSections == {"factions", "characters", "locations", "artifacts", "events"}

OrderedSections == {"interactions", "chat_history"}

InitialWorldData ==
  [physical_world |-> Obj(EmptyMap), culture |-> Obj(EmptyMap),
   factions |-> Obj(EmptyMap), characters |-> Obj(EmptyMap),
   locations |-> Obj(EmptyMap), artifacts |-> Obj(EmptyMap),
   events |-> Obj(EmptyMap), interactions |-> << >>, chat_history |-> << >>]

\* a handler that builds the new state without copying the previous one
HandleDataGeneratedForgetful(prevData, dataType, data) ==
  CASE dataType \in SingletonSections -> [InitialWorldData EXCEPT ![dataType] = data]
    [] dataType \in KeyedSections ->
         [InitialWorldData EXCEPT ![dataType] = SpreadMerge(OrEmptyObject(prevData[dataType]), data)]
    [] dataType = "interaction_result" ->
         [InitialWorldData EXCEPT !.interactions = <<data>> \o prevData.interactions]
    [] dataType = "chat_message" ->
         [InitialWorldData EXCEPT !.chat_history = Append(prevData.chat_history, data)]
    [] OTHER -> prevData

\* a handler that merges singleton results key by key and appends interactions
HandleDataGeneratedAccreting(prevData, dataType, data) ==
  CASE dataType = "physical_world" ->
         [prevData EXCEPT !.physical_world = SpreadMerge(OrEmptyObject(prevData.physical_world), data)]
    [] dataType = "culture" ->
         [prevData EXCEPT !.culture = SpreadMerge(OrEmptyObject(prevData.culture), data)]
    [] dataType \in KeyedSections ->
         [prevData EXCEPT ![dataType] = SpreadMerge(OrEmptyObject(prevData[dataType]), data)]
    [] dataType = "interaction_result" ->
         [prevData EXCEPT !.interactions = Append(prevData.interactions, data)]
    [] dataType = "chat_message" ->
         [prevData EXCEPT !.chat_history = Append(prevData.chat_history, data)]
    [] OTHER -> prevData

\* the functional update passed to setWorldData
HandleDataGenerated(prevData, dataType, data) ==
  CASE dataType = "physical_world" -> [prevData EXCEPT !.physical_world = data]
    [] dataType = "culture" -> [prevData EXCEPT !.culture = data]
    [] dataType = "factions" ->
         [prevData EXCEPT !.factions = SpreadMerge(OrEmptyObject(prevData.factions), data)]
    [] dataType = "characters" ->
         [prevData EXCEPT !.characters = SpreadMerge(OrEmptyObject(prevData.characters), data)]
    [] dataType = "locations" ->
         [prevData EXCEPT !.locations = SpreadMerge(OrEmptyObject(prevData.locations), data)]
    [] dataType = "artifacts" ->
         [prevData EXCEPT !.artifacts = SpreadMerge(OrEmptyObject(prevData.artifacts), data)]
    [] dataType = "events" ->
         [prevData EXCEPT !.events = SpreadMerge(OrEmptyObject(prevData.events), data)]
    [] dataType = "interaction_result" ->
         [prevData EXCEPT !.interactions = <<data>> \o prevData.interactions]
    [] dataType = "chat_message" ->
         [prevData EXCEPT !.chat_history = Append(prevData.chat_history, data)]
    [] OTHER -> prevData

Init ==
  /\ worldData = InitialWorldData
  /\ isLLMInitialized = FALSE
  /\ initializedProviderKey = ""
  /\ activeComponent = "settings"
  /\ isLoading = FALSE
  /\ errorMessage = ""
  /\ entitySelection = "None"
  /\ entityOptions = <<"None">>
  /\ entity1Selection = "None"
  /\ entity2Selection = "None"
  /\ inFlight = << >>
  /\ nRequests = 0
  /\ authToken = TRUE
  /\ mergeLog = << >>

-----------------------------------------------------------------------------
(* SpecStore: the store's entry points called directly *)

ProviderKeys == {"mock", "openai"}

Rec1 == Obj(("goal" :> Str("power")) @@ ("leader" :> Str("Mara")))

Rec2 == Obj("goal" :> Str("revenge"))

Rec3 == Obj("leader" :> Str("Ilya"))

\* the values a caller hands to handleDataGenerated, per data type: result
\* mappings of the generation service, and the string the tabs pass
StoreData(dataType) ==
  CASE dataType = "physical_world" ->
         {Obj(("terrain" :> Str("volcanic")) @@ ("climate" :> Str("arid"))), Obj("terrain" :> Str("icy"))}
    [] dataType = "culture" ->
         {Obj(("values" :> Str("honor")) @@ ("rites" :> Str("fire"))), Obj("values" :> Str("trade")),
          Str(dataType)}
    [] dataType = "factions" ->
         {Obj("Red Hand" :> Rec1), Obj(("Red Hand" :> Rec2) @@ ("Blue Sun" :> Rec3)), Str(dataType)}
    [] dataType = "characters" ->
         {Obj("Red Hand" :> Rec1), Obj(("Red Hand" :> Rec2) @@ ("Blue Sun" :> Rec3))}
    [] dataType \in KeyedSections ->
         {Obj(("Red Hand" :> Rec2) @@ ("Blue Sun" :> Rec3))}
    [] OTHER ->
         {Obj("result" :> Str("a")), Obj("result" :> Str("b"))}

DataTypes == SingletonSections \cup KeyedSections \cup {"interaction_result", "chat_message"}

ViewLocalUnchanged ==
  UNCHANGED <<activeComponent, isLoading, errorMessage, entitySelection, entityOptions,
              entity1Selection, entity2Selection>>

StoreMerge(dataType, data) ==
  /\ Len(mergeLog) < MaxStoreCalls
  /\ worldData' = HandleDataGenerated(worldData, dataType, data)
  /\ mergeLog' = Append(mergeLog, [dataType |-> dataType, data |-> data])
  /\ UNCHANGED <<isLLMInitialized, initializedProviderKey, inFlight, nRequests, authToken>>
  /\ ViewLocalUnchanged

\* a gate that keeps the provider key of the first initialization
HandleLLMInitializedOnce(providerKey) ==
  /\ isLLMInitialized' = TRUE
  /\ initializedProviderKey' = IF isLLMInitialized THEN initializedProviderKey ELSE providerKey

\* handleLLMInitialized(providerKey)
HandleLLMInitialized(providerKey) ==
  /\ isLLMInitialized' = TRUE
  /\ initializedProviderKey' = providerKey

StoreInitialize(providerKey) ==
  /\ Len(mergeLog) < MaxStoreCalls
  /\ HandleLLMInitialized(providerKey)
  /\ mergeLog' = Append(mergeLog, [dataType |-> "initialize", data |-> Str(providerKey)])
  /\ UNCHANGED <<worldData, inFlight, nRequests, authToken>>
  /\ ViewLocalUnchanged

NextStore ==
  \/ \E dataType \in DataTypes : \E data \in StoreData(dataType) : StoreMerge(dataType, data)
  \/ \E providerKey \in ProviderKeys : StoreInitialize(providerKey)

SpecStore == Init /\ [][NextStore]_vars

-----------------------------------------------------------------------------
(* The application: tabs, submit handlers, calls in flight *)

MenuComponents ==
  {"settings", "world-seed", "culture", "factions", "characters", "locations",
   "artifacts", "events", "simulate", "chat", "view-data"}

ProducerViews ==
  {"world-seed", "culture", "factions", "characters", "locations", "artifacts",
   "events", "simulate", "chat"}

\* the data type AppLayout binds into the onDataGenerated prop of each tab
DataTypeOf(view) ==
  CASE view = "world-seed" -> "physical_world"
    [] view = "simulate" -> "interaction_result"
    [] view = "chat" -> "chat_message"
    [] OTHER -> view

\* the onDataGenerated prop: (data) => handleDataGenerated(dataType, data);
\* only the first argument of the call is received
OnDataGenerated(prevData, view, args) ==
  HandleDataGenerated(prevData, DataTypeOf(view), IF Len(args) = 0 THEN Undefined ELSE args[1])

\* the arguments each tab passes to its onDataGenerated prop
CallArgs(view, payload) ==
  IF view = "world-seed" THEN <<payload>> ELSE <<Str(DataTypeOf(view)), payload>>

\* `x && Object.keys(x).length > 0`
Generated(section) == Truthy(section) /\ ObjectKeys(section) # {}

\* prerequisite checks that leave out one section for some tabs
PrerequisitesMetLoose(view, wd) ==
  CASE view = "world-seed" -> TRUE
    [] view = "culture" -> Generated(wd.physical_world)
    [] view = "factions" -> Generated(wd.physical_world)
    [] view = "characters" -> Generated(wd.culture)
    [] view = "locations" -> Generated(wd.physical_world) /\ Generated(wd.culture)
    [] view = "artifacts" -> Generated(wd.physical_world) /\ Generated(wd.culture)
    [] view \in {"events", "simulate"} ->
         /\ Generated(wd.physical_world) /\ Generated(wd.culture)
         /\ Generated(wd.factions) /\ Generated(wd.characters)
    [] view = "chat" -> Generated(wd.physical_world) /\ Generated(wd.culture)
    [] OTHER -> FALSE

\* prerequisitesMet as each tab derives it from the worldData prop
PrerequisitesMet(view, wd) ==
  CASE view = "world-seed" -> TRUE
    [] view = "culture" -> Generated(wd.physical_world)
    [] view = "factions" -> Generated(wd.physical_world) /\ Generated(wd.culture)
    [] view = "characters" -> Generated(wd.culture)
    [] view = "locations" -> Generated(wd.physical_world) /\ Generated(wd.culture)
    [] view = "artifacts" ->
         Generated(wd.physical_world) /\ Generated(wd.culture) /\ Generated(wd.locations)
    [] view \in {"events", "simulate"} ->
         /\ Generated(wd.physical_world) /\ Generated(wd.culture)
         /\ Generated(wd.factions) /\ Generated(wd.characters) /\ Generated(wd.locations)
    [] view = "chat" -> Generated(wd.physical_world) /\ Generated(wd.culture)
    [] OTHER -> FALSE

\* the names collected by the entityOptions effect (without 'None')
EntityNames(wd) ==
  UNION {IF Truthy(wd[section]) THEN ObjectKeys(wd[section]) ELSE {} : section \in KeyedSections}

\* the names the program can hold, in localeCompare order
LocaleOrder == Digits \o <<"Blue Sun", "Red Hand">>

LocaleRankOf ==
  [name \in {LocaleOrder[k] : k \in 1..Len(LocaleOrder)} |->
     CHOOSE k \in 1..Len(LocaleOrder) : LocaleOrder[k] = name]

\* position of a name in localeCompare order, for the names the program can hold
LocaleRank(name) == IF name \in DOMAIN LocaleRankOf THEN LocaleRankOf[name] ELSE Len(LocaleOrder) + 1

\* how many times the effect pushes a name: once per keyed section holding it
NameCount(wd, name) ==
  Cardinality({section \in KeyedSections : Truthy(wd[section]) /\ name \in ObjectKeys(wd[section])})

\* names.sort((a, b) => a.localeCompare(b)) over the pushed names
RECURSIVE SortedNames(_, _)
SortedNames(wd, names) ==
  IF names = {} THEN << >>
  ELSE LET first == CHOOSE n \in names : \A m \in names : LocaleRank(n) <= LocaleRank(m)
       IN  [k \in 1..NameCount(wd, first) |-> first] \o SortedNames(wd, names \ {first})

\* entityOptions as the effect sets it: ['None', ...sortedNames]
EntityOptions(wd) == <<"None">> \o SortedNames(wd, EntityNames(wd))

\* a dropdown that offers every name, whether a section holds it or not
PickableNamesUnchecked(wd) == {"None"} \cup {Digits[i] : i \in 1..10}

\* the names a user picks from in a dropdown: 'None' and the first MaxPick names
PickableNames(wd) ==
  {"None"} \cup {n \in EntityNames(wd) : Cardinality({m \in EntityNames(wd) : LocaleRank(m) < LocaleRank(n)}) < MaxPick}

\* the tabs that keep an entityOptions state
OptionTabs == {"characters", "locations", "artifacts", "events", "simulate"}

\* the effect's dependencies [worldData, selection] are as they were and the
\* tab stays mounted
EffectDependenciesUnchanged ==
  UNCHANGED <<activeComponent, worldData, entitySelection, entity1Selection, entity2Selection>>

\* an effect that fills entityOptions only when its tab is mounted
EntityOptionsEffectOnMount ==
  entityOptions' = IF activeComponent' \notin OptionTabs THEN <<"None">>
                   ELSE IF activeComponent' = activeComponent THEN entityOptions
                   ELSE EntityOptions(worldData')

\* the effect of the mounted tab, run after mounting and after every render
\* in which a dependency changed; it has run when the next handler starts
EntityOptionsEffect ==
  entityOptions' = IF activeComponent' \notin OptionTabs THEN <<"None">>
                   ELSE IF EffectDependenciesUnchanged THEN entityOptions
                   ELSE EntityOptions(worldData')

\* the effect that resets a selection whose name is not among the names
ResetSelection(selection, wd) ==
  IF selection # "None" /\ selection \notin EntityNames(wd) THEN "None" ELSE selection

\* the results the generation service can return for a view's call
Results(view) ==
  CASE view = "world-seed" ->
         {Obj(("terrain" :> Str("volcanic")) @@ ("climate" :> Str("arid"))), Obj(EmptyMap)}
    [] view = "culture" -> {Obj("values" :> Str("honor"))}
    [] view = "characters" -> {Obj("Red Hand" :> Rec1), Obj("Red Hand" :> Rec2), Obj("Blue Sun" :> Rec3)}
    [] view \in KeyedSections -> {Obj("Red Hand" :> Rec1)}
    [] view = "simulate" -> {Obj("result" :> Str("a"))}
    [] view = "chat" -> {Obj("response" :> Str("hello")), Obj(EmptyMap)}
    [] OTHER -> {Obj("message" :> Str("ok"))}

UserMessage == Obj(("sender" :> Str("user")) @@ ("text" :> Str("hi")))

AiMessage(text) == Obj(("sender" :> Str("ai")) @@ ("text" :> text))

\* a call awaiting its result: mounted tells whether the tab that awaits it
\* is still rendered, live whether the AppLayout that rendered it is
Request(view, key) == [view |-> view, mounted |-> TRUE, live |-> TRUE, key |-> key]

RemoveAt(seq, i) == [k \in 1..(Len(seq) - 1) |-> IF k < i THEN seq[k] ELSE seq[k + 1]]

\* handleMenuItemClick(componentName): the previous tab is unmounted and the
\* new one mounted with fresh local state; calls in flight keep running
HandleMenuItemClick(componentName) ==
  /\ activeComponent # "auth"
  /\ activeComponent' = componentName
  /\ IF componentName = activeComponent
     THEN UNCHANGED <<isLoading, errorMessage, entitySelection, entity1Selection, entity2Selection, inFlight>>
     ELSE /\ isLoading' = FALSE
          /\ errorMessage' = ""
          /\ entitySelection' = "None"
          /\ entity1Selection' = "None"
          /\ entity2Selection' = "None"
          /\ inFlight' = [k \in 1..Len(inFlight) |-> [inFlight[k] EXCEPT !.mounted = FALSE]]
  /\ UNCHANGED <<worldData, isLLMInitialized, initializedProviderKey, nRequests>>

\* the tabs whose form has an associated-entity dropdown
AssociatedEntityTabs == {"characters", "locations", "artifacts", "events"}

\* handleEntitySelectChange (which = 0) of the tabs with an associated-entity
\* dropdown; SimulateTab: handleEntity1SelectChange / handleEntity2SelectChange
HandleEntitySelectChange(which, name) ==
  /\ IF which = 0 THEN activeComponent \in AssociatedEntityTabs ELSE activeComponent = "simulate"
  /\ ~isLoading /\ isLLMInitialized /\ PrerequisitesMet(activeComponent, worldData)
  /\ which # 0 => EntityNames(worldData) # {}
  /\ name \in PickableNames(worldData)
  /\ CASE which = 0 ->
            /\ entitySelection' = name
            /\ UNCHANGED <<entity1Selection, entity2Selection>>
       [] which = 1 ->
            /\ ~(name = entity2Selection /\ name # "None")
            /\ entity1Selection' = name
            /\ UNCHANGED <<entitySelection, entity2Selection>>
       [] OTHER ->
            /\ ~(name = entity1Selection /\ name # "None")
            /\ entity2Selection' = name
            /\ UNCHANGED <<entitySelection, entity1Selection>>
  /\ errorMessage' = ""
  /\ UNCHANGED <<worldData, isLLMInitialized, initializedProviderKey, activeComponent,
                 isLoading, inFlight, nRequests>>

\* apiService.js: the function each tab's handleSubmit awaits
ApiFunctionOf(view) ==
  CASE view = "settings" -> "initLLM"
    [] view = "world-seed" -> "generateWorldSeed"
    [] view = "culture" -> "generateCulturalTapestry"
    [] view = "factions" -> "generateFaction"
    [] view = "characters" -> "generateCharacter"
    [] view = "locations" -> "generateLocation"
    [] view = "artifacts" -> "generateArtifact"
    [] view = "events" -> "generateEvent"
    [] view = "simulate" -> "simulateInteraction"
    [] view = "chat" -> "sendChatMessage"

\* the message of the error getAuthHeaders() throws when no token is stored
AuthError == "Authentication token not found."

\* the API functions that build their headers with getAuthHeaders();
\* generateEvent spreads the value of getAuthToken() instead
CallsGetAuthHeaders(apiFunction) == apiFunction # "generateEvent"

\* whether the API function throws before its fetch
ThrowsWithoutToken(apiFunction, token) == CallsGetAuthHeaders(apiFunction) /\ ~token

\* the validation at the head of each tab's handleSubmit: "" when the
\* request may be sent, otherwise the reason it is refused
Refusal(view, inputsValid) ==
  CASE view = "settings" -> IF inputsValid THEN "" ELSE "input"
    [] view = "chat" ->
         IF ~inputsValid THEN "silent"
         ELSE IF ~isLLMInitialized THEN "not initialized"
         ELSE IF ~PrerequisitesMet(view, worldData) THEN "prerequisites"
         ELSE ""
    [] view = "simulate" ->
         IF ~isLLMInitialized THEN "not initialized"
         ELSE IF ~PrerequisitesMet(view, worldData) THEN "prerequisites"
         ELSE IF entity1Selection = "None" \/ entity2Selection = "None" THEN "input"
         ELSE IF entity1Selection = entity2Selection THEN "input"
         ELSE IF ~inputsValid THEN "input"
         ELSE ""
    [] OTHER ->
         IF ~isLLMInitialized THEN "not initialized"
         ELSE IF ~PrerequisitesMet(view, worldData) THEN "prerequisites"
         ELSE IF ~inputsValid THEN "input"
         ELSE ""

\* a handleSubmit that hands nothing to the store before the call returns
HandleSubmitDeferred(view, inputsValid, key) ==
  /\ activeComponent = view
  /\ view \in ProducerViews \cup {"settings"}
  /\ ~isLoading
  /\ view = "settings" => ~isLLMInitialized
  /\ LET refusal == Refusal(view, inputsValid)
     IN  IF refusal # ""
         THEN /\ errorMessage' = IF refusal = "silent" THEN errorMessage ELSE refusal
              /\ UNCHANGED <<worldData, isLoading, inFlight, nRequests>>
         ELSE /\ nRequests < MaxRequests
              /\ Len(inFlight) < MaxInFlight
              /\ isLoading' = TRUE
              /\ errorMessage' = ""
              /\ inFlight' = Append(inFlight, Request(view, key))
              /\ nRequests' = nRequests + 1
              /\ UNCHANGED worldData
  /\ UNCHANGED <<isLLMInitialized, initializedProviderKey, activeComponent,
                 entitySelection, entity1Selection, entity2Selection>>

\* handleSubmit of the mounted tab
HandleSubmit(view, inputsValid, key) ==
  /\ activeComponent = view
  /\ view \in ProducerViews \cup {"settings"}
  /\ ~isLoading
  /\ view = "settings" => ~isLLMInitialized
  /\ LET refusal == Refusal(view, inputsValid)
     IN  IF refusal # ""
         THEN /\ errorMessage' = IF refusal = "silent" THEN errorMessage ELSE refusal
              /\ UNCHANGED <<worldData, isLoading, inFlight, nRequests>>
         ELSE IF ThrowsWithoutToken(ApiFunctionOf(view), authToken)
         THEN /\ nRequests < MaxRequests
              /\ isLoading' = FALSE
              /\ errorMessage' = AuthError
              /\ IF view = "chat"
                 THEN worldData' =
                        OnDataGenerated(OnDataGenerated(worldData, view, CallArgs(view, UserMessage)),
                                        view, CallArgs(view, AiMessage(Str("Error: Authentication token not found."))))
                 ELSE UNCHANGED worldData
              /\ nRequests' = nRequests + 1
              /\ UNCHANGED inFlight
         ELSE /\ nRequests < MaxRequests
              /\ Len(inFlight) < MaxInFlight
              /\ isLoading' = TRUE
              /\ errorMessage' = ""
              /\ inFlight' = Append(inFlight, Request(view, key))
              /\ nRequests' = nRequests + 1
              /\ IF view = "chat"
                 THEN worldData' = OnDataGenerated(worldData, view, CallArgs(view, UserMessage))
                 ELSE UNCHANGED worldData
  /\ UNCHANGED <<isLLMInitialized, initializedProviderKey, activeComponent,
                 entitySelection, entity1Selection, entity2Selection>>

\* a tab without the finally block: the loading flag is cleared only on success
SettleWithoutFinally(request, message) ==
  /\ isLoading' = IF request.mounted /\ message # "api error" THEN FALSE ELSE isLoading
  /\ errorMessage' = IF request.mounted /\ message # "" THEN message ELSE errorMessage

\* the local state of the tab that issued a call, after its finally block
\* (a set-state on an unmounted tab has no effect)
Settle(request, message) ==
  /\ isLoading' = IF request.mounted THEN FALSE ELSE isLoading
  /\ errorMessage' = IF request.mounted /\ message # "" THEN message ELSE errorMessage

\* what a tab hands over after a successful call: the result itself, or for
\* the chat tab the message built from it
Payload(view, result) ==
  IF view # "chat" THEN result
  ELSE IF "response" \in DOMAIN result.map
       THEN AiMessage(result.map["response"])
       ELSE AiMessage(Str("Sorry, I couldn't process that message."))

\* a completion that is discarded when its tab is no longer mounted
ResolveIfMounted(i, result) ==
  /\ i \in 1..Len(inFlight)
  /\ LET request == inFlight[i]
         view == request.view
     IN  /\ result \in Results(view)
         /\ inFlight' = RemoveAt(inFlight, i)
         /\ IF ~request.mounted
            THEN UNCHANGED <<worldData, isLLMInitialized, initializedProviderKey, isLoading,
                             errorMessage, entitySelection, entity1Selection, entity2Selection>>
            ELSE IF view = "settings"
            THEN /\ HandleLLMInitialized(request.key)
                 /\ Settle(request, "")
                 /\ UNCHANGED <<worldData, entitySelection, entity1Selection, entity2Selection>>
            ELSE LET newData == OnDataGenerated(worldData, view, CallArgs(view, Payload(view, result)))
                 IN  /\ worldData' = newData
                     /\ Settle(request, IF view = "chat" /\ "response" \notin DOMAIN result.map
                                        THEN "unexpected response" ELSE "")
                     /\ entitySelection' = ResetSelection(entitySelection, newData)
                     /\ entity1Selection' = ResetSelection(entity1Selection, newData)
                     /\ entity2Selection' = ResetSelection(entity2Selection, newData)
                     /\ UNCHANGED <<isLLMInitialized, initializedProviderKey>>
  /\ UNCHANGED <<activeComponent, nRequests>>

\* the call at position i of inFlight succeeds with result
Resolve(i, result) ==
  /\ i \in 1..Len(inFlight)
  /\ LET request == inFlight[i]
         view == request.view
     IN  /\ result \in Results(view)
         /\ inFlight' = RemoveAt(inFlight, i)
         /\ IF ~request.live
            THEN UNCHANGED <<worldData, isLLMInitialized, initializedProviderKey, isLoading, errorMessage,
                             entitySelection, entity1Selection, entity2Selection>>
            ELSE IF view = "settings"
            THEN /\ HandleLLMInitialized(request.key)
                 /\ Settle(request, "")
                 /\ UNCHANGED <<worldData, entitySelection, entity1Selection, entity2Selection>>
            ELSE LET args == CallArgs(view, Payload(view, result))
                     newData == OnDataGenerated(worldData, view, args)
                 IN  /\ worldData' = newData
                     /\ Settle(request, IF view = "chat" /\ "response" \notin DOMAIN result.map
                                        THEN "unexpected response" ELSE "")
                     /\ entitySelection' = ResetSelection(entitySelection, newData)
                     /\ entity1Selection' = ResetSelection(entity1Selection, newData)
                     /\ entity2Selection' = ResetSelection(entity2Selection, newData)
                     /\ UNCHANGED <<isLLMInitialized, initializedProviderKey>>
  /\ UNCHANGED <<activeComponent, nRequests>>

\* a catch block that reports the settings to AppLayout although the call failed
RejectInitializing(i) ==
  /\ i \in 1..Len(inFlight)
  /\ LET request == inFlight[i]
         view == request.view
     IN  /\ inFlight' = RemoveAt(inFlight, i)
         /\ Settle(request, "api error")
         /\ IF view = "chat"
            THEN worldData' = OnDataGenerated(worldData, view, CallArgs(view, AiMessage(Str("Error: api error"))))
            ELSE UNCHANGED worldData
         /\ IF view = "settings"
            THEN HandleLLMInitialized(request.key)
            ELSE UNCHANGED <<isLLMInitialized, initializedProviderKey>>
  /\ UNCHANGED <<activeComponent, entitySelection, entity1Selection, entity2Selection, nRequests>>

\* a catch block that writes the error into the store in every tab
RejectMerging(i) ==
  /\ i \in 1..Len(inFlight)
  /\ LET request == inFlight[i]
         view == request.view
     IN  /\ inFlight' = RemoveAt(inFlight, i)
         /\ Settle(request, "api error")
         /\ IF view \in ProducerViews
            THEN worldData' = OnDataGenerated(worldData, view, CallArgs(view, AiMessage(Str("Error: api error"))))
            ELSE UNCHANGED worldData
  /\ UNCHANGED <<isLLMInitialized, initializedProviderKey, activeComponent,
                 entitySelection, entity1Selection, entity2Selection, nRequests>>

\* a catch block that also marks the provider as not initialized
RejectResetting(i) ==
  /\ i \in 1..Len(inFlight)
  /\ LET request == inFlight[i]
         view == request.view
     IN  /\ inFlight' = RemoveAt(inFlight, i)
         /\ Settle(request, "api error")
         /\ IF view = "chat"
            THEN worldData' = OnDataGenerated(worldData, view, CallArgs(view, AiMessage(Str("Error: api error"))))
            ELSE UNCHANGED worldData
  /\ isLLMInitialized' = FALSE
  /\ initializedProviderKey' = ""
  /\ UNCHANGED <<activeComponent, entitySelection, entity1Selection, entity2Selection, nRequests>>

\* the call at position i of inFlight rejects
Reject(i) ==
  /\ i \in 1..Len(inFlight)
  /\ LET request == inFlight[i]
         view == request.view
     IN  /\ inFlight' = RemoveAt(inFlight, i)
         /\ Settle(request, "api error")
         /\ IF view = "chat" /\ request.live
            THEN worldData' = OnDataGenerated(worldData, view, CallArgs(view, AiMessage(Str("Error: api error"))))
            ELSE UNCHANGED worldData
  /\ UNCHANGED <<isLLMInitialized, initializedProviderKey, activeComponent,
                 entitySelection, entity1Selection, entity2Selection, nRequests>>

\* the state a freshly mounted AppLayout and its first tab start with
MountedFresh ==
  /\ worldData' = InitialWorldData
  /\ isLLMInitialized' = FALSE
  /\ initializedProviderKey' = ""
  /\ activeComponent' = "settings"
  /\ isLoading' = FALSE
  /\ errorMessage' = ""
  /\ entitySelection' = "None"
  /\ entity1Selection' = "None"
  /\ entity2Selection' = "None"

\* handleLogout -> logout(): the token is removed and ProtectedRoute replaces
\* AppLayout by the /auth page; the calls in flight keep running.  Until the
\* next mount the AppLayout variables keep the values of the unmounted instance.
HandleLogout ==
  /\ activeComponent # "auth"
  /\ authToken' = FALSE
  /\ activeComponent' = "auth"
  /\ inFlight' = [k \in 1..Len(inFlight) |-> [inFlight[k] EXCEPT !.mounted = FALSE, !.live = FALSE]]
  /\ isLoading' = FALSE
  /\ errorMessage' = ""
  /\ entitySelection' = "None"
  /\ entity1Selection' = "None"
  /\ entity2Selection' = "None"
  /\ UNCHANGED <<worldData, isLLMInitialized, initializedProviderKey, nRequests>>

\* a login after which AppLayout shows the state it had before the logout
LoginKeepingState ==
  /\ activeComponent = "auth"
  /\ authToken' = TRUE
  /\ activeComponent' = "settings"
  /\ UNCHANGED <<worldData, isLLMInitialized, initializedProviderKey, isLoading, errorMessage,
                 entitySelection, entity1Selection, entity2Selection, inFlight, nRequests>>

\* login(tokenData) on the /auth page: the token is stored and ProtectedRoute
\* mounts a new AppLayout
Login ==
  /\ activeComponent = "auth"
  /\ authToken' = TRUE
  /\ MountedFresh
  /\ UNCHANGED <<inFlight, nRequests>>

\* logout() run by the application in another browser tab: localStorage is
\* shared, so the token is gone while this AppLayout stays mounted
LogoutElsewhere ==
  /\ activeComponent # "auth"
  /\ authToken
  /\ authToken' = FALSE
  /\ UNCHANGED <<worldData, isLLMInitialized, initializedProviderKey, activeComponent, isLoading,
                 errorMessage, entitySelection, entity1Selection, entity2Selection, inFlight, nRequests>>

Next ==
  \/ \E componentName \in MenuComponents :
       HandleMenuItemClick(componentName) /\ UNCHANGED <<entityOptions, authToken, mergeLog>>
  \/ \E which \in {1, 2} : \E name \in {"None"} \cup {Digits[i] : i \in 1..10} :
       HandleEntitySelectChange(which, name) /\ UNCHANGED <<entityOptions, authToken, mergeLog>>
  \/ \E view \in ProducerViews \cup {"settings"} : \E inputsValid \in BOOLEAN :
       \E key \in (IF view = "settings" THEN ProviderKeys ELSE {""}) :
         HandleSubmit(view, inputsValid, key) /\ UNCHANGED <<entityOptions, authToken, mergeLog>>
  \/ \E i \in 1..Len(inFlight) : \E result \in Results(inFlight[i].view) :
       Resolve(i, result) /\ UNCHANGED <<entityOptions, authToken, mergeLog>>
  \/ \E i \in 1..Len(inFlight) :
       Reject(i) /\ UNCHANGED <<entityOptions, authToken, mergeLog>>

Spec == Init /\ [][Next]_vars

-----------------------------------------------------------------------------
(* The log of calls.  An entry is written when a call is sent ("send") and  *)
(* when it settles ("done" with its result, "fail" otherwise).  id numbers  *)
(* the calls in the order they were sent; data is the value that reached    *)
(* handleDataGenerated in that step (if any), changed tells whether the     *)
(* store differs after the step.                                            *)

LogEntry(op, request, id, result, changed, data) ==
  [op |-> op, view |-> request.view, id |-> id, mounted |-> request.mounted,
   key |-> request.key, result |-> result, changed |-> changed, data |-> data]

LogOf(op) == {k \in 1..Len(mergeLog) : mergeLog[k].op = op}

Settled == LogOf("done") \cup LogOf("fail")

\* ids of the calls sent and not yet settled
OutstandingIds == {mergeLog[k].id : k \in LogOf("send")} \ {mergeLog[k].id : k \in Settled}

\* inFlight is in sending order, so its i-th call has the i-th smallest id
IdAt(i) == CHOOSE id \in OutstandingIds : Cardinality({j \in OutstandingIds : j < id}) = i - 1

-----------------------------------------------------------------------------
(* SpecCallers: handleDataGenerated driven by tabs that await a call and    *)
(* hand a value over when it returns, several calls being in flight         *)

\* a tab sends its generation call
CallerStart(view) ==
  /\ nRequests < MaxRaceCalls
  /\ Len(inFlight) < MaxInFlight
  /\ inFlight' = Append(inFlight, Request(view, ""))
  /\ nRequests' = nRequests + 1
  /\ mergeLog' = Append(mergeLog, LogEntry("send", Request(view, ""), nRequests + 1, Undefined, FALSE, Undefined))
  /\ UNCHANGED <<worldData, isLLMInitialized, initializedProviderKey, authToken>>
  /\ ViewLocalUnchanged

\* a completion that is discarded when a call of the same tab sent later has
\* already been applied
CallerCompleteInSendOrder(i, data) ==
  /\ i \in 1..Len(inFlight)
  /\ LET view == inFlight[i].view
         stale == \E k \in LogOf("done") : mergeLog[k].view = view /\ mergeLog[k].id > IdAt(i)
     IN  /\ data \in StoreData(DataTypeOf(view))
         /\ worldData' = IF stale THEN worldData ELSE HandleDataGenerated(worldData, DataTypeOf(view), data)
         /\ inFlight' = RemoveAt(inFlight, i)
         /\ mergeLog' = Append(mergeLog, LogEntry("done", inFlight[i], IdAt(i), data, worldData' # worldData, data))
  /\ UNCHANGED <<isLLMInitialized, initializedProviderKey, nRequests, authToken>>
  /\ ViewLocalUnchanged

\* the call at position i returns and the tab hands data to handleDataGenerated
CallerComplete(i, data) ==
  /\ i \in 1..Len(inFlight)
  /\ LET view == inFlight[i].view
     IN  /\ data \in StoreData(DataTypeOf(view))
         /\ worldData' = HandleDataGenerated(worldData, DataTypeOf(view), data)
         /\ inFlight' = RemoveAt(inFlight, i)
         /\ mergeLog' = Append(mergeLog, LogEntry("done", inFlight[i], IdAt(i), data, worldData' # worldData, data))
  /\ UNCHANGED <<isLLMInitialized, initializedProviderKey, nRequests, authToken>>
  /\ ViewLocalUnchanged

NextCallers ==
  \/ \E view \in ProducerViews : CallerStart(view)
  \/ \E i \in 1..Len(inFlight) : \E data \in StoreData(DataTypeOf(inFlight[i].view)) :
       CallerComplete(i, data)

SpecCallers == Init /\ [][NextCallers]_vars

-----------------------------------------------------------------------------
(* SpecRace: the application with the log of calls kept, started from the   *)
(* state after construction or from a state the application reaches by      *)
(* generating the first sections                                            *)

\* the store after the world seed and the culture were generated
SeededWorldData ==
  LET seed == CHOOSE r \in Results("world-seed") : ObjectKeys(r) # {}
      culture == CHOOSE r \in Results("culture") : TRUE
      afterSeed == OnDataGenerated(InitialWorldData, "world-seed", CallArgs("world-seed", seed))
  IN  OnDataGenerated(afterSeed, "culture", CallArgs("culture", culture))

InitRace ==
  /\ worldData = SeededWorldData
  /\ isLLMInitialized = TRUE
  /\ initializedProviderKey = "mock"
  /\ activeComponent = "settings"
  /\ isLoading = FALSE
  /\ errorMessage = ""
  /\ entitySelection = "None"
  /\ entityOptions = <<"None">>
  /\ entity1Selection = "None"
  /\ entity2Selection = "None"
  /\ inFlight = << >>
  /\ nRequests = 0
  /\ authToken = TRUE
  /\ mergeLog = << >>

RaceSubmit(view, inputsValid, key) ==
  /\ HandleSubmit(view, inputsValid, key)
  /\ IF Len(inFlight') > Len(inFlight)
     THEN /\ nRequests < MaxRaceCalls
          /\ mergeLog' = Append(mergeLog,
               LogEntry("send", Request(view, key), nRequests + 1, Undefined, worldData' # worldData,
                        IF view = "chat" THEN CallArgs(view, UserMessage)[1] ELSE Undefined))
     ELSE UNCHANGED mergeLog

RaceResolve(i, result) ==
  /\ Resolve(i, result)
  /\ mergeLog' = Append(mergeLog,
       LogEntry("done", inFlight[i], IdAt(i), result, worldData' # worldData,
                IF inFlight[i].view = "settings" THEN Undefined
                ELSE CallArgs(inFlight[i].view, Payload(inFlight[i].view, result))[1]))

RaceReject(i) ==
  /\ Reject(i)
  /\ mergeLog' = Append(mergeLog,
       LogEntry("fail", inFlight[i], IdAt(i), Undefined, worldData' # worldData, Undefined))

\* the tabs the user visits
RaceTabs == {"factions", "characters", "locations", "chat"}

NextRace ==
  \/ \E componentName \in RaceTabs :
       HandleMenuItemClick(componentName) /\ UNCHANGED <<entityOptions, authToken, mergeLog>>
  \/ \E view \in ProducerViews \cup {"settings"} : \E inputsValid \in BOOLEAN :
       \E key \in (IF view = "settings" THEN ProviderKeys ELSE {""}) :
         RaceSubmit(view, inputsValid, key) /\ UNCHANGED <<entityOptions, authToken>>
  \/ \E i \in 1..Len(inFlight) : \E result \in Results(inFlight[i].view) :
       RaceResolve(i, result) /\ UNCHANGED <<entityOptions, authToken>>
  \/ \E i \in 1..Len(inFlight) : RaceReject(i) /\ UNCHANGED <<entityOptions, authToken>>

SpecRace == InitRace /\ [][NextRace]_vars

-----------------------------------------------------------------------------
(* SpecSession: the application with its dropdown lists, the stored token   *)
(* and logout / login, started after the first sections were generated      *)

\* the store after world seed, culture and a faction were generated
NamedWorldData ==
  LET faction == CHOOSE r \in Results("factions") : TRUE
  IN  OnDataGenerated(SeededWorldData, "factions", CallArgs("factions", faction))

\* the store after a character and a location were generated as well
PopulatedWorldData ==
  LET character == CHOOSE r \in Results("characters") : TRUE
      location == CHOOSE r \in Results("locations") : TRUE
      afterCharacter == OnDataGenerated(NamedWorldData, "characters", CallArgs("characters", character))
  IN  OnDataGenerated(afterCharacter, "locations", CallArgs("locations", location))

InitSession ==
  /\ worldData \in {NamedWorldData, PopulatedWorldData}
  /\ isLLMInitialized = TRUE
  /\ initializedProviderKey = "mock"
  /\ activeComponent = "settings"
  /\ isLoading = FALSE
  /\ errorMessage = ""
  /\ entitySelection = "None"
  /\ entityOptions = <<"None">>
  /\ entity1Selection = "None"
  /\ entity2Selection = "None"
  /\ inFlight = << >>
  /\ nRequests = 0
  /\ authToken = TRUE
  /\ mergeLog = << >>

\* the tabs the user visits
SessionTabs == {"characters", "events", "simulate", "chat"}

SessionSubmit(view, inputsValid, key) ==
  /\ HandleSubmit(view, inputsValid, key)
  /\ nRequests' > nRequests => nRequests < MaxSessionCalls

NextSession ==
  \/ \E componentName \in SessionTabs :
       HandleMenuItemClick(componentName) /\ EntityOptionsEffect /\ UNCHANGED <<authToken, mergeLog>>
  \/ \E which \in {0, 1, 2} : \E name \in {"None"} \cup {Digits[i] : i \in 1..10} :
       HandleEntitySelectChange(which, name) /\ EntityOptionsEffect /\ UNCHANGED <<authToken, mergeLog>>
  \/ \E view \in ProducerViews \cup {"settings"} : \E inputsValid \in BOOLEAN :
       \E key \in (IF view = "settings" THEN ProviderKeys ELSE {""}) :
         SessionSubmit(view, inputsValid, key) /\ EntityOptionsEffect /\ UNCHANGED <<authToken, mergeLog>>
  \/ \E i \in 1..Len(inFlight) : \E result \in Results(inFlight[i].view) :
       Resolve(i, result) /\ EntityOptionsEffect /\ UNCHANGED <<authToken, mergeLog>>
  \/ \E i \in 1..Len(inFlight) :
       Reject(i) /\ EntityOptionsEffect /\ UNCHANGED <<authToken, mergeLog>>
  \/ HandleLogout /\ EntityOptionsEffect /\ UNCHANGED mergeLog
  \/ Login /\ EntityOptionsEffect /\ UNCHANGED mergeLog
  \/ LogoutElsewhere /\ EntityOptionsEffect /\ UNCHANGED mergeLog

SpecSession == InitSession /\ [][NextSession]_vars

\* a call in flight is answered with an error.  The action is enabled exactly
\* when a call is in flight, and a call answered successfully leaves inFlight
\* as well, so weak fairness on it excludes the behaviours in which a call
\* stays unanswered for ever, and only these.
AnswerArrives ==
  \E i \in 1..Len(inFlight) : Reject(i) /\ UNCHANGED <<entityOptions, authToken, mergeLog>>

\* SpecSession under the assumption that every call is eventually answered
FairSpecSession == SpecSession /\ WF_vars(AnswerArrives)

-----------------------------------------------------------------------------
(* Properties of the store (checked under SpecStore) *)

\* positions in mergeLog of the calls for one data type
CallsFor(dataType) == {i \in 1..Len(mergeLog) : mergeLog[i].dataType = dataType}

\* the (name, record) entries carried by call i
EntriesOf(i) == SpreadProps(mergeLog[i].data)

\* the calls for a section whose entries mention a name
WritersOf(section, name) == {i \in CallsFor(section) : name \in DOMAIN EntriesOf(i)}

Latest(S) == CHOOSE i \in S : \A j \in S : j <= i

NamesWritten(section) == UNION {DOMAIN EntriesOf(i) : i \in CallsFor(section)}

\* C1: every keyed section equals the last-write-wins fold of the entries of
\* the calls made for it: its names are the names any call carried, and each
\* name holds exactly the record of the latest call that carried it, whatever
\* calls for other sections came in between.
C1_KeyedFold ==
  \A section \in KeyedSections :
    /\ worldData[section].kind = "object"
    /\ DOMAIN worldData[section].map = NamesWritten(section)
    /\ \A name \in NamesWritten(section) :
         worldData[section].map[name] = EntriesOf(Latest(WritersOf(section, name)))[name]

\* C1 witness: "Red Hand" written to factions twice with different records,
\* a merge into another section in between, and the second record stands
\* without the field only the first one had.
C1_Witness ==
  \E i, j, k \in 1..Len(mergeLog) :
    /\ i < j /\ j < k
    /\ mergeLog[i].dataType = "factions" /\ mergeLog[i].data = Obj("Red Hand" :> Rec1)
    /\ mergeLog[j].dataType \notin {"factions"}
    /\ mergeLog[k].dataType = "factions" /\ mergeLog[k].data.kind = "object"
    /\ "Red Hand" \in DOMAIN mergeLog[k].data.map
    /\ mergeLog[k].data.map["Red Hand"] = Rec2
    /\ k = Latest(CallsFor("factions"))
    /\ worldData.factions.map["Red Hand"] = Rec2
    /\ "leader" \notin DOMAIN worldData.factions.map["Red Hand"].map

\* C2: a singleton section holds exactly the data of the latest call made for
\* it (and the initial empty mapping before any call).
C2_SingletonReplace ==
  \A section \in SingletonSections :
    IF CallsFor(section) = {}
    THEN worldData[section] = Obj(EmptyMap)
    ELSE worldData[section] = mergeLog[Latest(CallsFor(section))].data

\* C2 witness: culture received X and later Y, X has a field Y lacks, and
\* culture is Y.
C2_Witness ==
  \E i, j \in CallsFor("culture") :
    /\ i < j /\ j = Latest(CallsFor("culture"))
    /\ mergeLog[i].data.kind = "object" /\ mergeLog[j].data.kind = "object"
    /\ (DOMAIN mergeLog[i].data.map) \ (DOMAIN mergeLog[j].data.map) # {}
    /\ worldData.culture = mergeLog[j].data

\* the data of the calls for one data type, in call order
DataSeq(dataType) ==
  LET picked == SelectSeq(mergeLog, LAMBDA e : e.dataType = dataType)
  IN  [k \in 1..Len(picked) |-> picked[k].data]

Reverse(s) == [k \in 1..Len(s) |-> s[Len(s) + 1 - k]]

\* C3: interactions lists the interaction results newest first, chat_history
\* lists the chat messages oldest first.
C3_OppositeEnds ==
  /\ worldData.interactions = Reverse(DataSeq("interaction_result"))
  /\ worldData.chat_history = DataSeq("chat_message")

\* C3 witness: interaction a then b gave [b, a]; chat message a then b gave [a, b].
C3_Witness ==
  /\ DataSeq("interaction_result") = <<Obj("result" :> Str("a")), Obj("result" :> Str("b"))>>
  /\ worldData.interactions = <<Obj("result" :> Str("b")), Obj("result" :> Str("a"))>>
  /\ DataSeq("chat_message") = <<Obj("result" :> Str("a")), Obj("result" :> Str("b"))>>
  /\ worldData.chat_history = <<Obj("result" :> Str("a")), Obj("result" :> Str("b"))>>

-----------------------------------------------------------------------------
(* Properties of the application (checked under Spec unless stated) *)

AllSections == SingletonSections \cup KeyedSections \cup OrderedSections

\* a value that holds nothing: no property and no character
IsEmptyValue(value) == value.map = EmptyMap /\ value.str = ""

\* a section that holds nothing: no entry (ordered) or an empty value
SectionIsEmpty(wd, section) ==
  IF section \in OrderedSections THEN Len(wd[section]) = 0 ELSE IsEmptyValue(wd[section])

\* the dependency table: the sections that must be non-empty before a view
\* may generate its own section
TablePrerequisites(view) ==
  CASE view = "world-seed" -> {}
    [] view = "culture" -> {"physical_world"}
    [] view = "factions" -> {"physical_world", "culture"}
    [] view = "characters" -> {"culture"}
    [] view = "locations" -> {"physical_world", "culture"}
    [] view = "artifacts" -> {"physical_world", "culture", "locations"}
    [] view = "events" -> {"physical_world", "culture", "factions", "characters", "locations"}
    [] view = "simulate" -> {"physical_world", "culture", "factions", "characters", "locations"}
    [] view = "chat" -> {"physical_world", "culture"}

TableSatisfied(view, wd) == \A section \in TablePrerequisites(view) : ~SectionIsEmpty(wd, section)

\* the step appends a call of this view to inFlight
Sent(view) ==
  /\ Len(inFlight') = Len(inFlight) + 1
  /\ inFlight'[Len(inFlight')].view = view

\* C4: when a producer view's call succeeds, the store after the step is the
\* store before it with the raw result merged into the view's section.
C4_RawResultMerged ==
  [][\A i \in 1..Len(inFlight) : \A result \in Results(inFlight[i].view) :
       (inFlight[i].view \in ProducerViews /\ Resolve(i, result))
         => worldData' = HandleDataGenerated(worldData, DataTypeOf(inFlight[i].view), result)]_vars

\* C5 as stated: a rejected call leaves every section as it was, for every view.
C5_FailureLeavesStore ==
  [][\A i \in 1..Len(inFlight) : Reject(i) => worldData' = worldData]_vars

\* C5 amended: a rejected call leaves every section as it was, except that a
\* rejected chat call appends exactly one entry to chat_history and changes
\* nothing else.
C5_FailureEffect ==
  [][\A i \in 1..Len(inFlight) : Reject(i) =>
       IF inFlight[i].view = "chat"
       THEN /\ Len(worldData'.chat_history) = Len(worldData.chat_history) + 1
            /\ SubSeq(worldData'.chat_history, 1, Len(worldData.chat_history)) = worldData.chat_history
            /\ [worldData' EXCEPT !.chat_history = worldData.chat_history] = worldData
       ELSE worldData' = worldData]_vars

\* C5 witness: the chat tab shows the error of its rejected call and
\* chat_history holds the entry of the submit and the entry of the failure.
C5_Witness ==
  /\ activeComponent = "chat"
  /\ errorMessage = "api error"
  /\ Len(worldData.chat_history) >= 2

\* C6 as stated: the store changes only in a step in which a producer view
\* receives a successful result.
C6_MutationOnlyAfterSuccess ==
  [][worldData' # worldData =>
       \E i \in 1..Len(inFlight) : \E result \in Results(inFlight[i].view) :
         inFlight[i].view \in ProducerViews /\ Resolve(i, result)]_vars

\* C6 amended: the store changes only when a producer view receives a
\* successful result, or when the chat view submits a message, or when a chat
\* call is rejected.
C6_MutationSources ==
  [][worldData' # worldData =>
       \/ \E i \in 1..Len(inFlight) : \E result \in Results(inFlight[i].view) :
            inFlight[i].view \in ProducerViews /\ Resolve(i, result)
       \/ HandleSubmit("chat", TRUE, "")
       \/ \E i \in 1..Len(inFlight) : inFlight[i].view = "chat" /\ Reject(i)]_vars

\* C6 witness: a chat call is still in flight and chat_history already holds
\* the entry appended at submit, the culture section holding a merged result.
C6_Witness ==
  /\ \E i \in 1..Len(inFlight) : inFlight[i].view = "chat"
  /\ Len(worldData.chat_history) = 1
  /\ ~SectionIsEmpty(worldData, "culture")

\* C7: a step that puts a generation call of a view in flight starts in a
\* state where the gate is initialized and every prerequisite section the
\* table lists for the view is non-empty.
C7_SubmitGated ==
  [][\A view \in ProducerViews :
       Sent(view) => isLLMInitialized /\ TableSatisfied(view, worldData)]_vars

\* C7 witness: an events call is in flight, sent with the gate initialized
\* and its five prerequisite sections populated.
C7_Witness ==
  /\ \E i \in 1..Len(inFlight) : inFlight[i].view = "events"
  /\ isLLMInitialized
  /\ TableSatisfied("events", worldData)

\* C8 as stated: a section that is non-empty stays non-empty in every step.
C8_NoRegression ==
  [][\A section \in AllSections :
       ~SectionIsEmpty(worldData, section) => ~SectionIsEmpty(worldData', section)]_vars

\* C8 amended: keyed and ordered sections never go from non-empty to empty;
\* a singleton section does so only in a step that merges a successful
\* result into that very section, the merged value being empty.
C8_RegressionOnlyByEmptyResult ==
  [][\A section \in AllSections :
       (~SectionIsEmpty(worldData, section) /\ SectionIsEmpty(worldData', section)) =>
         /\ section \in SingletonSections
         /\ \E i \in 1..Len(inFlight) : \E result \in Results(inFlight[i].view) :
              /\ DataTypeOf(inFlight[i].view) = section
              /\ Resolve(i, result)
              /\ IsEmptyValue(result)]_vars

\* C8 witness: physical_world is empty again although culture and factions,
\* which could only be generated while it was populated, still hold content.
C8_Witness ==
  /\ SectionIsEmpty(worldData, "physical_world")
  /\ ~SectionIsEmpty(worldData, "culture")
  /\ ~SectionIsEmpty(worldData, "factions")

\* C9 (under SpecStore): the readiness each view derives equals "every
\* section the table lists for it is non-empty", whatever the gate's state.
C9_ReadinessMatchesTable ==
  \A view \in ProducerViews :
    PrerequisitesMet(view, worldData) <=> TableSatisfied(view, worldData)

\* C9 witness: gate not initialized, physical_world non-empty, culture empty:
\* culture is ready, factions is not.
C9_Witness ==
  /\ ~isLLMInitialized
  /\ ~SectionIsEmpty(worldData, "physical_world")
  /\ SectionIsEmpty(worldData, "culture")
  /\ PrerequisitesMet("culture", worldData)
  /\ ~PrerequisitesMet("factions", worldData)

\* the distinct entity names of the five keyed sections
NameIndex(wd) == UNION {DOMAIN wd[section].map : section \in KeyedSections}

\* SimulateTab's submit button is enabled
SimulateSubmitEnabled ==
  /\ activeComponent = "simulate"
  /\ ~isLoading
  /\ PrerequisitesMet("simulate", worldData)
  /\ isLLMInitialized
  /\ entity1Selection # "None" /\ entity2Selection # "None"
  /\ entity1Selection # entity2Selection

\* C10: whenever the simulate submit is enabled, and whenever a simulate call
\* is put in flight, the five prerequisite sections are non-empty and the
\* name index holds at least two distinct names.
C10_SimulateGated ==
  [][(SimulateSubmitEnabled \/ Sent("simulate")) =>
       /\ TableSatisfied("simulate", worldData)
       /\ Cardinality(NameIndex(worldData)) >= 2]_vars

\* C10 witness: a simulate call is in flight.
C10_Witness ==
  \E i \in 1..Len(inFlight) : inFlight[i].view = "simulate"

-----------------------------------------------------------------------------
(* Concurrent completions at the store (checked under SpecCallers) *)

\* the log positions of the completions of one tab's calls
DoneOf(view) == {k \in LogOf("done") : mergeLog[k].view = view}

-----------------------------------------------------------------------------
(* The capability gate *)

\* C19 (under SpecStore): once initialize has been called the gate is
\* initialized and holds the provider key of the latest call, so a second call
\* with a different key leaves it initialized and replaces the key; before any
\* call the gate is not initialized.
C19_InitializeOverwrites ==
  IF CallsFor("initialize") = {}
  THEN ~isLLMInitialized /\ initializedProviderKey = ""
  ELSE /\ isLLMInitialized
       /\ Str(initializedProviderKey) = mergeLog[Latest(CallsFor("initialize"))].data

\* C19 witness: initialize was called with one key and later with another,
\* and the gate holds the second key.
C19_Witness ==
  \E i, j \in CallsFor("initialize") :
    /\ i < j /\ j = Latest(CallsFor("initialize"))
    /\ mergeLog[i].data # mergeLog[j].data
    /\ isLLMInitialized
    /\ Str(initializedProviderKey) = mergeLog[j].data

-----------------------------------------------------------------------------
(* Concurrent calls in the application (checked under SpecRace unless stated) *)

\* C12: when two characters calls were in flight together and the one sent
\* later (B) completed before the other (A), characters afterwards contains
\* every name either call returned, and a name both returned holds B's record.
C12_BothNamesKept ==
  \A p, q \in DoneOf("characters") :
    (p < q /\ mergeLog[p].id > mergeLog[q].id /\ q = Latest(DoneOf("characters"))) =>
      LET b == mergeLog[p].result
          a == mergeLog[q].result
      IN  /\ ObjectKeys(a) \cup ObjectKeys(b) \subseteq ObjectKeys(worldData.characters)
          /\ \A name \in ObjectKeys(a) \cap ObjectKeys(b) :
               worldData.characters.map[name] = b.map[name]

\* the log steps of the chat tab in which an entry was added to chat_history
ChatEntries == {k \in 1..Len(mergeLog) : mergeLog[k].view = "chat" /\ mergeLog[k].changed}

\* chat_history grows at its end, so the entry added in log step k stands at
\* the position given by the number of entries added up to that step
PosOf(k) == Cardinality({j \in ChatEntries : j <= k})

EntriesBy(id) == {k \in ChatEntries : mergeLog[k].id = id}

\* pairs of completed chat calls <<k1, k2>>: the call of k1 was sent first,
\* the call of k2 completed first
ChatOvertakes ==
  {pair \in DoneOf("chat") \X DoneOf("chat") :
     mergeLog[pair[1]].id < mergeLog[pair[2]].id /\ pair[2] < pair[1]}

\* C14 as stated: when chat call R1 is sent before R2 and R2 completes first,
\* every chat_history entry produced by R2 stands before every entry produced
\* by R1.
C14_CompletedFirstEntriesFirst ==
  \A pair \in ChatOvertakes :
    \A e2 \in EntriesBy(mergeLog[pair[2]].id) : \A e1 \in EntriesBy(mergeLog[pair[1]].id) :
      PosOf(e2) < PosOf(e1)

\* C14 amended: every chat call adds one entry when it is sent (the user's
\* message) and one when it settles (the reply or the error), chat_history
\* holding exactly these entries; so when R1 is sent before R2 and R2
\* completes first, R1's message stands before R2's message, which stands
\* before R2's reply, which stands before R1's reply.
C14_EntriesInAppendOrder ==
  /\ Len(worldData.chat_history) = Cardinality(ChatEntries)
  /\ \A k \in 1..Len(mergeLog) : mergeLog[k].view = "chat" => mergeLog[k].changed
  /\ \A pair \in ChatOvertakes :
       LET id1 == mergeLog[pair[1]].id
           id2 == mergeLog[pair[2]].id
       IN  \E s1 \in EntriesBy(id1) \cap LogOf("send") : \E s2 \in EntriesBy(id2) \cap LogOf("send") :
             /\ PosOf(s1) < PosOf(s2)
             /\ PosOf(s2) < PosOf(pair[2])
             /\ PosOf(pair[2]) < PosOf(pair[1])

\* C14 witness: two chat calls were in flight together, the one sent later
\* completed first, and chat_history holds their four entries.
C14_Witness ==
  /\ ChatOvertakes # {}
  /\ Len(worldData.chat_history) = 4

\* C15 (under Spec): no two calls of the same tab are in flight together.
C15_SingleFlight ==
  \A i, j \in 1..Len(inFlight) : i < j => inFlight[i].view # inFlight[j].view

\* C16: no completion is dropped, whatever other calls were in flight: a keyed
\* section contains every name a completion for it handed over, culture holds
\* what its latest completion handed over, and chat_history has an entry for
\* every chat call sent and every chat call completed.
C16_NoCompletionDropped ==
  /\ \A view \in KeyedSections : \A k \in DoneOf(view) :
       ObjectKeys(mergeLog[k].data) \subseteq ObjectKeys(worldData[view])
  /\ DoneOf("culture") # {} => worldData.culture = mergeLog[Latest(DoneOf("culture"))].data
  /\ Len(worldData.chat_history) >=
       Cardinality({k \in LogOf("send") : mergeLog[k].view = "chat"}) + Cardinality(DoneOf("chat"))

\* C16 witness: a characters call and a locations call were both sent before
\* either completed, the one sent later completed first, and both sections,
\* empty at the start, are populated.
C16_Witness ==
  \E sc, sl \in LogOf("send") : \E dc \in DoneOf("characters") : \E dl \in DoneOf("locations") :
    /\ mergeLog[sc].view = "characters" /\ mergeLog[sc].id = mergeLog[dc].id
    /\ mergeLog[sl].view = "locations" /\ mergeLog[sl].id = mergeLog[dl].id
    /\ sc < sl /\ sl < dl /\ dl < dc
    /\ ~SectionIsEmpty(worldData, "characters")
    /\ ~SectionIsEmpty(worldData, "locations")

C20_OnlySuccessReachesGate ==
  [][/\ \A i \in 1..Len(inFlight) :
          (inFlight[i].view = "settings" /\ Reject(i)) =>
            UNCHANGED <<isLLMInitialized, initializedProviderKey>>
     /\ <<isLLMInitialized, initializedProviderKey>>' # <<isLLMInitialized, initializedProviderKey>> =>
          \E i \in 1..Len(inFlight) : \E result \in Results(inFlight[i].view) :
            inFlight[i].view = "settings" /\ Resolve(i, result)]_vars

\* C20 witness: the settings tab shows the error of its failed call and the
\* gate is still not initialized.
C20_Witness ==
  /\ activeComponent = "settings"
  /\ errorMessage = "api error"
  /\ ~isLLMInitialized
  /\ initializedProviderKey = ""

-----------------------------------------------------------------------------
(* The name index *)

\* the names of a set in localeCompare order, each once
RECURSIVE SortedOnce(_)
SortedOnce(names) ==
  IF names = {} THEN << >>
  ELSE LET first == CHOOSE n \in names : \A m \in names : LocaleRank(n) <= LocaleRank(m)
       IN  <<first>> \o SortedOnce(names \ {first})

\* C18 (under SpecStore): the options a tab offers are 'None' followed by the
\* keys of the five keyed sections, each name once, in sorted order.
C18_NameIndexDeduplicated ==
  EntityOptions(worldData) = <<"None">> \o SortedOnce(EntityNames(worldData))

-----------------------------------------------------------------------------
(* Frame and growth properties of the store (checked under SpecStore) *)

\* s occurs in t as a block of consecutive entries
IsBlockOf(s, t) ==
  \E start \in 0..(Len(t) - Len(s)) : \A k \in 1..Len(s) : t[start + k] = s[k]

\* C21: every step keeps the entries of interactions and of chat_history:
\* the sequence before the step occurs unchanged, in the same order, inside
\* the sequence after it.
C21_OrderedSectionsKeepEntries ==
  [][\A section \in OrderedSections :
       /\ Len(worldData'[section]) >= Len(worldData[section])
       /\ IsBlockOf(worldData[section], worldData'[section])]_vars

\* C21 witness: after two different interaction results and two different chat
\* messages were merged, both sections still hold both of their entries.
C21_Witness ==
  /\ Len(worldData.interactions) = 2 /\ worldData.interactions[1] # worldData.interactions[2]
  /\ Len(worldData.chat_history) = 2 /\ worldData.chat_history[1] # worldData.chat_history[2]
  /\ mergeLog[Len(mergeLog)].dataType = "interaction_result"

\* the section a data type is merged into
SectionOf(dataType) ==
  CASE dataType = "interaction_result" -> "interactions"
    [] dataType = "chat_message" -> "chat_history"
    [] OTHER -> dataType

\* C22: a merge changes no section but its own and leaves the gate as it
\* was, whatever value is merged; initialize changes no section.
C22_MergeTouchesOwnSection ==
  [][/\ \A dataType \in DataTypes : \A data \in StoreData(dataType) :
          StoreMerge(dataType, data) =>
            /\ \A section \in AllSections \ {SectionOf(dataType)} :
                 worldData'[section] = worldData[section]
            /\ UNCHANGED <<isLLMInitialized, initializedProviderKey>>
     /\ \A providerKey \in ProviderKeys :
          StoreInitialize(providerKey) => worldData' = worldData]_vars

\* C22 witness: the latest call merged a string into factions, which now holds
\* its characters, while culture keeps its mapping and the gate its key.
C22_Witness ==
  /\ Len(mergeLog) >= 3
  /\ mergeLog[Len(mergeLog)] = [dataType |-> "factions", data |-> Str("factions")]
  /\ "0" \in ObjectKeys(worldData.factions)
  /\ worldData.culture.kind = "object" /\ ObjectKeys(worldData.culture) # {}
  /\ isLLMInitialized /\ initializedProviderKey = "openai"

\* C23: a name that is a key of a keyed section is still a key of it after
\* every step.
C23_KeyedSectionsGrow ==
  [][\A section \in KeyedSections :
       ObjectKeys(worldData[section]) \subseteq ObjectKeys(worldData'[section])]_vars

\* C23 witness: characters received "Blue Sun" in one call and a later call
\* that carried only "Red Hand", and still holds both names.
C23_Witness ==
  \E i, j \in CallsFor("characters") :
    /\ i < j /\ j = Latest(CallsFor("characters"))
    /\ "Blue Sun" \in ObjectKeys(mergeLog[i].data)
    /\ "Blue Sun" \notin ObjectKeys(mergeLog[j].data)
    /\ {"Blue Sun", "Red Hand"} \subseteq ObjectKeys(worldData.characters)

-----------------------------------------------------------------------------
(* The gate and the dependency table over time (checked under Spec) *)

\* C28: once the gate is initialized it is initialized after every step,
\* whether the step is a failure, a merge or a tab switch.
C28_GateStaysInitialized ==
  [][isLLMInitialized => isLLMInitialized']_vars

\* C28 witness: a generation call of the mounted producer tab has failed, the
\* user has moved on to no other tab, and the gate is still initialized.
C28_Witness ==
  /\ isLLMInitialized
  /\ activeComponent \in ProducerViews \ {"chat"}
  /\ errorMessage = "api error"
  /\ ~isLoading

\* the section a view's results are merged into
SectionOfView(view) == SectionOf(DataTypeOf(view))

\* C29 as stated: whenever the section of a view is non-empty, every section
\* the table lists as its prerequisite is non-empty.
C29_ClosedUnderTable ==
  \A view \in ProducerViews :
    ~SectionIsEmpty(worldData, SectionOfView(view)) => TableSatisfied(view, worldData)

\* C29 amended: whenever the section of a view is non-empty, every
\* prerequisite section the table lists for it other than physical_world is
\* non-empty (physical_world itself may have been replaced by an empty
\* world-seed result after its dependents were generated).
C29_ClosedExceptPhysicalWorld ==
  \A view \in ProducerViews :
    ~SectionIsEmpty(worldData, SectionOfView(view)) =>
      \A section \in TablePrerequisites(view) \ {"physical_world"} :
        ~SectionIsEmpty(worldData, section)

\* C29 witness: artifacts, locations and culture hold content and
\* physical_world is empty.
C29_Witness ==
  /\ ~SectionIsEmpty(worldData, "artifacts")
  /\ ~SectionIsEmpty(worldData, "locations")
  /\ ~SectionIsEmpty(worldData, "culture")
  /\ SectionIsEmpty(worldData, "physical_world")

-----------------------------------------------------------------------------
(* Dropdown lists, selections, sessions and the token (checked under        *)
(* SpecSession)                                                             *)

\* the names a list offers, 'None' apart
NamesOffered(options) == {options[k] : k \in 1..Len(options)} \ {"None"}

SelectedNames(view) ==
  CASE view \in AssociatedEntityTabs -> {entitySelection} \ {"None"}
    [] view = "simulate" -> {entity1Selection, entity2Selection}
    [] OTHER -> {}

IsKeyOfKeyedSection(name, wd) == \E section \in KeyedSections : name \in ObjectKeys(wd[section])

\* C25: every selection other than 'None' is a key of some keyed section, and
\* so is every name carried by a request at the step that sends it.
C25_SelectedNamesExist ==
  [][/\ \A name \in {entitySelection, entity1Selection, entity2Selection} \ {"None"} :
          IsKeyOfKeyedSection(name, worldData)
     /\ \A view \in ProducerViews :
          Sent(view) => \A name \in SelectedNames(view) \ {"None"} : IsKeyOfKeyedSection(name, worldData)]_vars

\* C25 witness: a characters call was sent with an associated entity selected,
\* and a simulate call can be sent with two participants selected.
C25_Witness ==
  \/ /\ activeComponent = "characters" /\ isLoading /\ entitySelection # "None"
     /\ \E i \in 1..Len(inFlight) : inFlight[i].view = "characters" /\ inFlight[i].mounted
  \/ /\ activeComponent = "simulate" /\ isLoading
     /\ entity1Selection # "None" /\ entity2Selection # "None"
     /\ \E i \in 1..Len(inFlight) : inFlight[i].view = "simulate" /\ inFlight[i].mounted

C27_NoTokenNoRequest ==
  [][\A view \in ProducerViews \cup {"settings"} : \A inputsValid \in BOOLEAN : \A key \in ProviderKeys \cup {""} :
       (~authToken /\ Refusal(view, inputsValid) = "" /\ HandleSubmit(view, inputsValid, key)) =>
         /\ inFlight' = inFlight
         /\ errorMessage' = AuthError]_vars

\* C27, second sentence as stated: such a submit leaves the store unchanged.
C27_NoTokenStoreUnchanged ==
  [][\A view \in ProducerViews \cup {"settings"} : \A inputsValid \in BOOLEAN : \A key \in ProviderKeys \cup {""} :
       (~authToken /\ Refusal(view, inputsValid) = "" /\ HandleSubmit(view, inputsValid, key)) =>
         worldData' = worldData]_vars

\* C30 (under FairSpecSession): the answer to a call of the mounted tab clears
\* the tab's loading flag, and a loading tab is eventually not loading.
C30_LoadingEnds ==
  /\ [][\A i \in 1..Len(inFlight) :
          (inFlight[i].mounted /\ ((\E result \in Results(inFlight[i].view) : Resolve(i, result)) \/ Reject(i))) =>
            ~isLoading']_vars
  /\ (isLoading ~> ~isLoading)

\* C30 witness: a call of the mounted events tab has failed; the tab shows the
\* error with its loading flag cleared, gate and prerequisites as before.
C30_Witness ==
  /\ activeComponent = "events"
  /\ errorMessage = "api error"
  /\ ~isLoading
  /\ isLLMInitialized /\ PrerequisitesMet("events", worldData)
  /\ inFlight = << >>

====
